---- MODULE Spec2Model ----
(***************************************************************************)
(* Drought index calculators of the dic package: ChinaZIndex (CZI),        *)
(* ModifiedChinaZIndex (MCZI) and CompositeIndex (CI).                     *)
(*                                                                         *)
(* A calculator holds the table it was constructed from (data); every      *)
(* public method is one action that leaves its outcome in result.          *)
(*                                                                         *)
(* Numbers.  Precipitation values of the input tables are integers, so     *)
(* sums, means of equal values and the test std == 0 are exact in binary   *)
(* floating point; the test skewness == 0 and the sign of the cube-root    *)
(* base are evaluated in exact integer arithmetic.  Series of equal        *)
(* decimal values (SpecZ) are evaluated in IEEE double arithmetic, carried *)
(* out on three-limb integers.  Classifier inputs are fixed-point integers *)
(* in units of 0.00001 (2.0 is 200000, -0.49 is -49000, -0.60001 is        *)
(* -60001).  NaN is the one missing value.                                 *)
(***************************************************************************)
EXTENDS Integers, Sequences, FiniteSets, TLC

VARIABLES
    calculator,        \* the class of the calculator object
    data,              \* self.data: the rows <<year, month, precipitation>> in input order,
                       \* with the columns the methods have added since
    temperature_data,  \* self.temperature_data of a CompositeIndex
    op,                \* the method called last
    arg,               \* its argument
    result             \* its outcome: [ok |-> TRUE, val |-> returned value] or [ok |-> FALSE, val |-> exception]

vars == <<calculator, data, temperature_data, op, arg, result>>

----------------------------------------------------------------------------
(* Bounds of the model *)

MaxLen == 12        \* rows of a CZI / MCZI input table
MaxP == 3           \* largest monthly precipitation value
MaxSpiLen == 4      \* rows of a CI input table
MaxSpiP == 2        \* largest monthly precipitation value of a CI input table
MaxK == 3           \* largest SPI timescale
GridMax == 30       \* classifier inputs span -GridMax/10 .. GridMax/10
MaxZLen == 4        \* positions of a series of equal values
MaxTenths == 30     \* largest value of such a series, in tenths
MaxMoistLen == 3    \* rows of a moisture-index input table
MaxMoistP == 2      \* largest monthly precipitation value of such a table
MaxTemperature == 20 \* the non-zero temperature of a temperature frame
MaxFrameRows == 2   \* rows of a frame passed to a constructor
MaxCmpLen == 2      \* rows of each table of a comparison
MaxExtra == 2       \* months of a long SPI series beyond the 360 of the fitting window

----------------------------------------------------------------------------
(* Values *)

NaN == -1000000     \* np.nan / a missing value; outside every value range used

BaseYear == 2000

IsNa(x) == x = NaN

\* the sum of a sequence, by halves
RECURSIVE SeqSum(_)
SeqSum(s) ==
    IF Len(s) = 0 THEN 0
    ELSE IF Len(s) = 1 THEN s[1]
    ELSE SeqSum(SubSeq(s, 1, Len(s) \div 2)) + SeqSum(SubSeq(s, Len(s) \div 2 + 1, Len(s)))

DropNa(s) == SelectSeq(s, LAMBDA x : ~IsNa(x))

Returned(v) == [ok |-> TRUE, val |-> v]
Raised(e) == [ok |-> FALSE, val |-> e]

\* temperature_data=None
NoTemperature == [index |-> "none", temperature |-> <<>>]

----------------------------------------------------------------------------
(* BaseDroughtIndex.classify_drought: the nine-bin CZI / MCZI scale *)

ClassifyDroughtStrict(index_value) ==
    IF IsNa(index_value) THEN "No Data"
    ELSE IF index_value > 200000 THEN "Extremely Wet"
    ELSE IF index_value > 150000 THEN "Severe Wet"
    ELSE IF index_value > 100000 THEN "Moderate Wet"
    ELSE IF index_value > 50000 THEN "Mild Wet"
    ELSE IF index_value > -49000 THEN "Normal"
    ELSE IF index_value > -99000 THEN "Mild Drought"
    ELSE IF index_value > -149000 THEN "Moderate Drought"
    ELSE IF index_value > -199000 THEN "Severe Drought"
    ELSE "Extreme Drought"

\* classify_drought with the labels of the branches >= 1.00 and >= 0.50 exchanged
ClassifyDroughtSwapped(index_value) ==
    IF IsNa(index_value) THEN "No Data"
    ELSE IF index_value >= 200000 THEN "Extremely Wet"
    ELSE IF index_value >= 150000 THEN "Severe Wet"
    ELSE IF index_value >= 100000 THEN "Mild Wet"
    ELSE IF index_value >= 50000 THEN "Moderate Wet"
    ELSE IF index_value >= -49000 THEN "Normal"
    ELSE IF index_value >= -99000 THEN "Mild Drought"
    ELSE IF index_value >= -149000 THEN "Moderate Drought"
    ELSE IF index_value >= -199000 THEN "Severe Drought"
    ELSE "Extreme Drought"

ClassifyDrought(index_value) ==
    IF IsNa(index_value) THEN "No Data"
    ELSE IF index_value >= 200000 THEN "Extremely Wet"
    ELSE IF index_value >= 150000 THEN "Severe Wet"
    ELSE IF index_value >= 100000 THEN "Moderate Wet"
    ELSE IF index_value >= 50000 THEN "Mild Wet"
    ELSE IF index_value >= -49000 THEN "Normal"
    ELSE IF index_value >= -99000 THEN "Mild Drought"
    ELSE IF index_value >= -149000 THEN "Moderate Drought"
    ELSE IF index_value >= -199000 THEN "Severe Drought"
    ELSE "Extreme Drought"

(* CompositeIndex.classify_ci_drought: the five-bin CI scale, over an array *)

CiCategoryInclusive(ci) ==
    IF IsNa(ci) THEN "No Data"
    ELSE IF ci >= -60000 THEN "Normal"
    ELSE IF ci >= -120000 THEN "Mild Drought"
    ELSE IF ci >= -180000 THEN "Moderate Drought"
    ELSE IF ci >= -240000 THEN "Severe Drought"
    ELSE "Extreme Drought"

CiCategory(ci) ==
    IF IsNa(ci) THEN "No Data"
    ELSE IF ci > -60000 THEN "Normal"
    ELSE IF ci >= -120000 THEN "Mild Drought"
    ELSE IF ci >= -180000 THEN "Moderate Drought"
    ELSE IF ci >= -240000 THEN "Severe Drought"
    ELSE "Extreme Drought"

ClassifyCiDroughtValues(ci_values) ==
    [i \in 1..Len(ci_values) |-> CiCategory(ci_values[i])]

(* The classifier inputs: a 0.1 grid, and every threshold of either scale  *)
(* with its two neighbours at 0.00001.                                     *)
DroughtThresholds ==
    {200000, 150000, 100000, 50000, -49000, -99000, -149000, -199000}

CiThresholds == {-60000, -120000, -180000, -240000}

IndexValues ==
    {NaN} \cup {g * 10000 : g \in -GridMax..GridMax}
          \cup {-50000}
          \cup {t + d : t \in DroughtThresholds \cup CiThresholds, d \in {-1, 0, 1}}

CiArrays == {<<v>> : v \in IndexValues} \cup {<<v, w>> : v \in CiThresholds, w \in IndexValues}

----------------------------------------------------------------------------
(* The input tables of ChinaZIndex and ModifiedChinaZIndex.                *)
(* A table is a run of consecutive months from a start month, every month  *)
(* holding precipitation 1 except at most two cells: one that is missing   *)
(* (NaN), 0, MaxP, or has no row at all (an absent month), and one more    *)
(* that holds MaxP.                                                        *)

MonthRecord(t, p) ==
    [year |-> BaseYear + (t \div 12), month |-> (t % 12) + 1, precipitation |-> p]

StartMonths == {1, 12}

Cells == {"base", "nan", "zero", "high", "absent"}
SecondCells == {"base", "high"}

CellValue(c, high) ==
    IF c = "nan" THEN NaN ELSE IF c = "zero" THEN 0 ELSE IF c = "high" THEN high ELSE 1

CellPatterns(len) ==
    IF len = 0 THEN {<<>>}
    ELSE {[[i \in 1..len |-> "base"] EXCEPT ![p1] = c1, ![p2] = c2] :
              p1 \in 1..len, p2 \in 1..len, c1 \in Cells, c2 \in SecondCells}

RECURSIVE BuildTable(_, _, _, _)
BuildTable(start, cells, i, high) ==
    IF i > Len(cells) THEN <<>>
    ELSE IF cells[i] = "absent" THEN BuildTable(start, cells, i + 1, high)
    ELSE <<MonthRecord(start - 1 + i - 1, CellValue(cells[i], high))>>
             \o BuildTable(start, cells, i + 1, high)

Tables(maxLen, high) ==
    {BuildTable(start, cells, 1, high) :
        start \in StartMonths, cells \in UNION {CellPatterns(len) : len \in 0..maxLen}}

PrecipitationColumn(table) == [i \in 1..Len(table) |-> table[i].precipitation]

----------------------------------------------------------------------------
(* ZTransform: calculate_czi and calculate_mczi.                           *)
(*                                                                         *)
(* With n values of sum S, the model keeps the exact integer moments       *)
(*   Q  = n*Sum(x^2) - S^2           = n*(n-1)*std^2                       *)
(*   K3 = n^2*Sum(x^3) - 3nS*Sum(x^2) + 2S^3 = n^2 * Sum((x-mean)^3)       *)
(*   E3 = Sum((2x - 2*median)^3)     = 8 * Sum((x-median)^3)               *)
(* so std = 0 iff Q = 0, skewness = 0 iff K3 = 0 (E3 = 0), and the sign of *)
(* the cube-root base (skewness/2)*z + 1 is the sign of                    *)
(*   K3*(n*x - S)*(n-1)^2 + 2*n^2*Q^2        (mean)                        *)
(*   E3*(2x - 2*median)*n*(n-1)^2 + 32*Q^2   (median).                     *)
(* An index value is kept symbolically: "nan", "zero" (the integer 0),     *)
(* "z" (the plain z score) or "wh" (the Wilson-Hilferty value), with the   *)
(* integers that determine it.                                             *)

ZNaN == [kind |-> "nan", d |-> 0, k3 |-> 0, q |-> 0, n |-> 0]
ZZero == [kind |-> "zero", d |-> 0, k3 |-> 0, q |-> 0, n |-> 0]
ZReal(kind, d, k3, q, n) == [kind |-> kind, d |-> d, k3 |-> k3, q |-> q, n |-> n]

ZIsNa(z) == z.kind = "nan"

SumSq(s) == SeqSum([i \in 1..Len(s) |-> s[i] * s[i]])
SumCube(s) == SeqSum([i \in 1..Len(s) |-> s[i] * s[i] * s[i]])

StdQ(precip) == Len(precip) * SumSq(precip) - SeqSum(precip) * SeqSum(precip)

\* the k-th smallest element (k from 1) of a non-empty sequence
KthSmallest(s, k) ==
    CHOOSE v \in {s[i] : i \in 1..Len(s)} :
        /\ Cardinality({i \in 1..Len(s) : s[i] < v}) < k
        /\ Cardinality({i \in 1..Len(s) : s[i] <= v}) >= k

\* twice np.median
Median2(s) ==
    IF Len(s) % 2 = 1 THEN 2 * KthSmallest(s, (Len(s) + 1) \div 2)
    ELSE KthSmallest(s, Len(s) \div 2) + KthSmallest(s, Len(s) \div 2 + 1)

\* base ** (1/3) of a numpy float: nan for a negative base
PowerOneThird(kind, negative, d, k3, q, n) ==
    IF negative THEN ZNaN ELSE ZReal(kind, d, k3, q, n)

CzValue(x, n, S, Q, K3) ==
    IF IsNa(x) THEN ZNaN
    ELSE IF K3 = 0 THEN ZReal("z", n * x - S, K3, Q, n)
    ELSE PowerOneThird("wh",
             K3 * (n * x - S) * (n - 1) * (n - 1) + 2 * n * n * Q * Q < 0,
             n * x - S, K3, Q, n)

\* calculate_czi with the guard len(precip) < 1
CalculateCziMinOne(precipitation_series) ==
    LET precip == DropNa(precipitation_series)
        n == Len(precip)
        S == SeqSum(precip)
        Q == StdQ(precip)
        K3 == n * n * SumCube(precip) - 3 * n * S * SumSq(precip) + 2 * S * S * S
    IN  IF n < 1 THEN [i \in 1..Len(precipitation_series) |-> ZNaN]
        ELSE IF Q = 0 THEN [i \in 1..Len(precipitation_series) |-> ZZero]
        ELSE [i \in 1..Len(precipitation_series) |->
                 CzValue(precipitation_series[i], n, S, Q, K3)]

CalculateCzi(precipitation_series) ==
    LET precip == DropNa(precipitation_series)
        n == Len(precip)
        S == SeqSum(precip)
        Q == StdQ(precip)
        K3 == n * n * SumCube(precip) - 3 * n * S * SumSq(precip) + 2 * S * S * S
    IN  IF n < 2 THEN [i \in 1..Len(precipitation_series) |-> ZNaN]
        ELSE IF Q = 0 THEN [i \in 1..Len(precipitation_series) |-> ZZero]
        ELSE [i \in 1..Len(precipitation_series) |->
                 CzValue(precipitation_series[i], n, S, Q, K3)]

MczValue(x, n, m2, Q, E3) ==
    IF IsNa(x) THEN ZNaN
    ELSE IF E3 = 0 THEN ZReal("z", 2 * x - m2, E3, Q, n)
    ELSE PowerOneThird("wh",
             E3 * (2 * x - m2) * n * (n - 1) * (n - 1) + 32 * Q * Q < 0,
             2 * x - m2, E3, Q, n)

CalculateMczi(precipitation_series) ==
    LET precip == DropNa(precipitation_series)
        n == Len(precip)
        m2 == Median2(precip)
        Q == StdQ(precip)
        E3 == SeqSum([i \in 1..n |->
                  (2 * precip[i] - m2) * (2 * precip[i] - m2) * (2 * precip[i] - m2)])
    IN  IF n < 2 THEN [i \in 1..Len(precipitation_series) |-> ZNaN]
        ELSE IF Q = 0 THEN [i \in 1..Len(precipitation_series) |-> ZZero]
        ELSE [i \in 1..Len(precipitation_series) |->
                 MczValue(precipitation_series[i], n, m2, Q, E3)]

\* classify_drought of an index value: exact for a missing value and for 0;
\* the class of any other real is not evaluated by the model
DroughtClassOf(z) ==
    IF ZIsNa(z) THEN ClassifyDrought(NaN)
    ELSE IF z.kind = "zero" THEN ClassifyDrought(0)
    ELSE "Unevaluated"

----------------------------------------------------------------------------
(* Monthly tables *)

CalculateMonthlyCzi(table) ==
    LET monthly_czi == CalculateCzi(PrecipitationColumn(table))
    IN  [i \in 1..Len(table) |->
            [year |-> table[i].year, month |-> table[i].month,
             precipitation |-> table[i].precipitation,
             CZI |-> monthly_czi[i],
             Drought_Class |-> DroughtClassOf(monthly_czi[i])]]

CalculateMonthlyMczi(table) ==
    LET monthly_mczi == CalculateMczi(PrecipitationColumn(table))
    IN  [i \in 1..Len(table) |->
            [year |-> table[i].year, month |-> table[i].month,
             precipitation |-> table[i].precipitation,
             MCZI |-> monthly_mczi[i],
             Drought_Class |-> DroughtClassOf(monthly_mczi[i])]]

----------------------------------------------------------------------------
(* Seasonal tables.  groupby('year_season') sorts its keys, the strings    *)
(* "<year>_<season>": by year, then by season name.  sum() skips NaN.      *)

Seasons(month) ==
    IF month \in {12, 1, 2} THEN "Winter"
    ELSE IF month \in {3, 4, 5} THEN "Spring"
    ELSE IF month \in {6, 7, 8} THEN "Summer"
    ELSE "Fall"

\* the year_season key of a row: December belongs to next year's winter
YearSeason(rec) ==
    IF rec.month = 12 THEN <<rec.year + 1, "Winter">>
    ELSE <<rec.year, Seasons(rec.month)>>

SeasonNames == <<"Fall", "Spring", "Summer", "Winter">>

TableYears(table) == {table[i].year : i \in 1..Len(table)}

MinOf(S) == CHOOSE x \in S : \A y \in S : x <= y
MaxOf(S) == CHOOSE x \in S : \A y \in S : x >= y

\* the assignment of 'year_season' moving a December whose column already
\* exists one more year ahead
AssignSeasonColumnsCumulative(table) ==
    [i \in 1..Len(table) |->
        [year |-> table[i].year, month |-> table[i].month,
         precipitation |-> table[i].precipitation,
         season |-> Seasons(table[i].month),
         year_season |-> IF "year_season" \in DOMAIN table[i] /\ table[i].month = 12
                         THEN <<table[i].year_season[1] + 1, "Winter">>
                         ELSE YearSeason(table[i])]]

\* self.data after the columns 'season' and 'year_season' are assigned
AssignSeasonColumns(table) ==
    [i \in 1..Len(table) |->
        [year |-> table[i].year, month |-> table[i].month,
         precipitation |-> table[i].precipitation,
         season |-> Seasons(table[i].month),
         year_season |-> YearSeason(table[i])]]

\* the keys of the groups of the column 'year_season', in the order of the
\* sorted group index
SeasonKeys(table) ==
    IF table = <<>> THEN <<>>
    ELSE LET lo == MinOf(TableYears(table))
             hi == MaxOf(TableYears(table)) + 1
             all == [j \in 1..(4 * (hi - lo + 1)) |->
                        <<lo + ((j - 1) \div 4), SeasonNames[((j - 1) % 4) + 1]>>]
         IN  SelectSeq(all, LAMBDA k : \E i \in 1..Len(table) : table[i].year_season = k)

\* the group sum taken over every row of the key's season, whatever its year
SeasonalPrecipAnyYear(table, key) ==
    SeqSum(DropNa(PrecipitationColumn(
        SelectSeq(table, LAMBDA rec : rec.season = key[2]))))

\* seasonal_precip[key]: the sum of the group of the key
SeasonalPrecip(table, key) ==
    SeqSum(DropNa(PrecipitationColumn(
        SelectSeq(table, LAMBDA rec : rec.year_season = key))))

ResultYearSameYear(key) == key[1]

\* the year a seasonal row is reported under
ResultYear(key) == IF key[2] # "Winter" THEN key[1] ELSE key[1] - 1

CalculateSeasonalCzi(table) ==
    LET self_data == AssignSeasonColumns(table)
        keys == SeasonKeys(self_data)
        seasonal_precip == [j \in 1..Len(keys) |-> SeasonalPrecip(self_data, keys[j])]
        seasonal_czi == CalculateCzi(seasonal_precip)
    IN  [j \in 1..Len(keys) |->
            [year |-> ResultYear(keys[j]), season |-> keys[j][2],
             precipitation |-> seasonal_precip[j],
             CZI |-> seasonal_czi[j],
             Drought_Class |-> DroughtClassOf(seasonal_czi[j])]]

CalculateSeasonalMczi(table) ==
    LET self_data == AssignSeasonColumns(table)
        keys == SeasonKeys(self_data)
        seasonal_precip == [j \in 1..Len(keys) |-> SeasonalPrecip(self_data, keys[j])]
        seasonal_mczi == CalculateMczi(seasonal_precip)
    IN  [j \in 1..Len(keys) |->
            [year |-> ResultYear(keys[j]), season |-> keys[j][2],
             precipitation |-> seasonal_precip[j],
             MCZI |-> seasonal_mczi[j],
             Drought_Class |-> DroughtClassOf(seasonal_mczi[j])]]

----------------------------------------------------------------------------
(* Annual tables: groupby(index.year), keys ascending, sum() skips NaN *)

AnnualYears(table) ==
    IF table = <<>> THEN <<>>
    ELSE LET lo == MinOf(TableYears(table))
             hi == MaxOf(TableYears(table))
         IN  SelectSeq([j \in 1..(hi - lo + 1) |-> lo + j - 1],
                       LAMBDA y : y \in TableYears(table))

AnnualPrecipBySeasonYear(table, year) ==
    SeqSum(DropNa(PrecipitationColumn(
        SelectSeq(table, LAMBDA rec : YearSeason(rec)[1] = year))))

AnnualPrecip(table, year) ==
    SeqSum(DropNa(PrecipitationColumn(
        SelectSeq(table, LAMBDA rec : rec.year = year))))

CalculateAnnualCzi(table) ==
    LET years == AnnualYears(table)
        annual_precip == [j \in 1..Len(years) |-> AnnualPrecip(table, years[j])]
        annual_czi == CalculateCzi(annual_precip)
    IN  [j \in 1..Len(years) |->
            [year |-> years[j], precipitation |-> annual_precip[j],
             CZI |-> annual_czi[j],
             Drought_Class |-> DroughtClassOf(annual_czi[j])]]

CalculateAnnualMczi(table) ==
    LET years == AnnualYears(table)
        annual_precip == [j \in 1..Len(years) |-> AnnualPrecip(table, years[j])]
        annual_mczi == CalculateMczi(annual_precip)
    IN  [j \in 1..Len(years) |->
            [year |-> years[j], precipitation |-> annual_precip[j],
             MCZI |-> annual_mczi[j],
             Drought_Class |-> DroughtClassOf(annual_mczi[j])]]

----------------------------------------------------------------------------
(* ChinaZIndex.calculate and ModifiedChinaZIndex.calculate *)

Frequencies == {"monthly", "seasonal", "annual", "invalid"}

CziCalculate(table, frequency) ==
    IF frequency = "monthly" THEN Returned(CalculateMonthlyCzi(table))
    ELSE IF frequency = "seasonal" THEN Returned(CalculateSeasonalCzi(table))
    ELSE IF frequency = "annual" THEN Returned(CalculateAnnualCzi(table))
    ELSE Raised("ValueError")

McziCalculate(table, frequency) ==
    IF frequency = "monthly" THEN Returned(CalculateMonthlyMczi(table))
    ELSE IF frequency = "seasonal" THEN Returned(CalculateSeasonalMczi(table))
    ELSE IF frequency = "annual" THEN Returned(CalculateAnnualMczi(table))
    ELSE Raised("ValueError")

\* self.data after calculate(frequency): the seasonal methods add two columns
DataAfterCalculate(table, frequency) ==
    IF frequency = "seasonal" THEN AssignSeasonColumns(table) ELSE table

CziCalculateCall ==
    \E frequency \in Frequencies :
        /\ calculator = "ChinaZIndex"
        /\ op' = "czi_calculate"
        /\ arg' = frequency
        /\ result' = CziCalculate(data, frequency)
        /\ data' = DataAfterCalculate(data, frequency)
        /\ UNCHANGED <<calculator, temperature_data>>

McziCalculateCall ==
    \E frequency \in Frequencies :
        /\ calculator = "ModifiedChinaZIndex"
        /\ op' = "mczi_calculate"
        /\ arg' = frequency
        /\ result' = McziCalculate(data, frequency)
        /\ data' = DataAfterCalculate(data, frequency)
        /\ UNCHANGED <<calculator, temperature_data>>

Init ==
    /\ calculator \in {"ChinaZIndex", "ModifiedChinaZIndex"}
    /\ temperature_data = NoTemperature
    /\ data \in Tables(MaxLen, MaxP)
    /\ op = "init"
    /\ arg = "none"
    /\ result = Returned(<<>>)

Next == CziCalculateCall \/ McziCalculateCall

Spec == Init /\ [][Next]_vars

----------------------------------------------------------------------------
(* CompositeIndex.calculate_spi: the rolling gamma SPI.                    *)
(*                                                                         *)
(* scipy's gamma.fit, gamma.cdf and norm.ppf are not computed; a score is  *)
(* kept as its kind together with the rolling sum and the fitting sample   *)
(* that determine it.  The kinds of one position are the outcomes the      *)
(* three calls can have on that sample:                                    *)
(*   - gamma.fit(sample, floc=0) raises when a sample value is <= 0;       *)
(*   - on a sample of equal values the likelihood equation degenerates     *)
(*     (log(mean) - mean(log) is 0 up to rounding): the fit raises, or     *)
(*     gives nan or finite parameters, depending on that rounding;         *)
(*   - otherwise gamma.cdf is a float in [0, 1], and norm.ppf maps 0 to    *)
(*     -inf, 1 to +inf and every value between to a finite score.  The     *)
(*     fitted mean is the sample mean and the CDF at the mean of a gamma   *)
(*     distribution lies strictly between 0.5 and 1, so the CDF can round  *)
(*     to 1 only above the sample mean and to 0 only below it.  Which      *)
(*     samples reach a bound depends on magnitudes the model does not      *)
(*     compute: a CDF of exactly 1.0 needs an upper tail below 2^-54, as   *)
(*     for 99 months of 1.0 followed by one month of 100.0.                *)

FitWindowBack == 359

SpiNaN == [kind |-> "nan", x |-> NaN, sample |-> <<>>]
SpiScore(kind, x, sample) ==
    IF kind = "nan" THEN SpiNaN ELSE [kind |-> kind, x |-> x, sample |-> sample]

\* precip.rolling(window=timescale, min_periods=1).sum()
RollingSumMinPeriods1(precip, timescale) ==
    [i \in 1..Len(precip) |->
        SeqSum(SubSeq(precip, IF i > timescale THEN i - timescale + 1 ELSE 1, i))]

\* precip.rolling(window=timescale, min_periods=timescale).sum()
RollingSum(precip, timescale) ==
    [i \in 1..Len(precip) |->
        IF i < timescale THEN NaN
        ELSE SeqSum(SubSeq(precip, i - timescale + 1, i))]

\* rolling_sum.iloc[0:i+1].dropna(): no cap on the window
SampleDataUnbounded(rolling_sum, i) == DropNa(SubSeq(rolling_sum, 1, i))

\* rolling_sum.iloc[max(0, i-359):i+1].dropna(), i counted from 1
SampleData(rolling_sum, i) ==
    DropNa(SubSeq(rolling_sum, IF i - FitWindowBack > 1 THEN i - FitWindowBack ELSE 1, i))

\* gamma.fit on sample_data, then gamma.cdf and norm.ppf of x
FitOutcomes(sample_data, x) ==
    IF \E j \in 1..Len(sample_data) : sample_data[j] <= 0 THEN {"error"}
    ELSE IF \A j \in 1..Len(sample_data) : sample_data[j] = sample_data[1]
         THEN {"error", "nan", "fin"}
    ELSE {"fin"}
         \cup (IF Len(sample_data) * x > SeqSum(sample_data) THEN {"posinf"} ELSE {})
         \cup (IF Len(sample_data) * x < SeqSum(sample_data) THEN {"neginf"} ELSE {})

SpiPositionKindsNoWarmup(precip, i, timescale) ==
    LET rolling_sum == RollingSumMinPeriods1(precip, timescale)
        sample_data == SampleData(rolling_sum, i)
    IN  IF Len(sample_data) > 1 THEN FitOutcomes(sample_data, rolling_sum[i]) ELSE {"nan"}

\* the body of the loop with the test len(sample_data) > 0
SpiPositionKindsOneValue(precip, i, timescale) ==
    IF i - 1 < timescale - 1 THEN {"nan"}
    ELSE LET rolling_sum == RollingSum(precip, timescale)
             sample_data == SampleData(rolling_sum, i)
         IN  IF Len(sample_data) > 0 THEN FitOutcomes(sample_data, rolling_sum[i])
             ELSE {"nan"}

\* the body of the loop at position i (counted from 1)
SpiPositionKinds(precip, i, timescale) ==
    IF i - 1 < timescale - 1 THEN {"nan"}
    ELSE LET rolling_sum == RollingSum(precip, timescale)
             sample_data == SampleData(rolling_sum, i)
         IN  IF Len(sample_data) > 1 THEN FitOutcomes(sample_data, rolling_sum[i])
             ELSE {"nan"}

\* every way the loop over positions 1..i can go
RECURSIVE SpiLoop(_, _, _)
SpiLoop(precip, i, timescale) ==
    IF i = 0 THEN {<<>>}
    ELSE {Append(kinds, c) : kinds \in SpiLoop(precip, i - 1, timescale),
                             c \in SpiPositionKinds(precip, i, timescale)}

\* pd.Series(spi_values, index=precipitation_series.index)
SpiSeries(spi_values, precipitation_series) ==
    IF Len(spi_values) # Len(precipitation_series) THEN Raised("ValueError")
    ELSE Returned(spi_values)

\* the outcomes of calculate_spi(timescale, precipitation_series)
CalculateSpi(timescale, precipitation_series) ==
    LET precip == DropNa(precipitation_series)
        rolling_sum == RollingSum(precip, timescale)
    IN  IF Len(precip) < timescale
        THEN {Returned([i \in 1..Len(precipitation_series) |-> SpiNaN])}
        ELSE {IF \E i \in 1..Len(kinds) : kinds[i] = "error"
              THEN Raised("FitError")
              ELSE SpiSeries([i \in 1..Len(kinds) |->
                                 SpiScore(kinds[i], rolling_sum[i], SampleData(rolling_sum, i))],
                             precipitation_series) :
                 kinds \in SpiLoop(precip, Len(precip), timescale)}

(* The input tables of CompositeIndex: every run of up to MaxSpiLen        *)
(* consecutive months from January with values in 0..MaxSpiP or missing.   *)
CiValues == {NaN} \cup 0..MaxSpiP

CiTables ==
    {[i \in 1..Len(values) |-> MonthRecord(i - 1, values[i])] :
        values \in UNION {[1..len -> CiValues] : len \in 0..MaxSpiLen}}

CalculateSpiCall ==
    /\ calculator = "CompositeIndex"
    /\ \E timescale \in 1..MaxK :
           \E outcome \in CalculateSpi(timescale, PrecipitationColumn(data)) :
               /\ op' = "calculate_spi"
               /\ arg' = timescale
               /\ result' = outcome
               /\ UNCHANGED <<calculator, data, temperature_data>>

----------------------------------------------------------------------------
(* One iteration of the loop of calculate_spi, on series long enough for   *)
(* the cap of the fitting window to matter.                                *)

\* what iteration i (counted from 1) appends to spi_values: the possible
\* kinds of the score, with the rolling sum and the sample that determine it
SpiStep(precip, i, timescale) ==
    LET rolling_sum == RollingSum(precip, timescale)
    IN  [kinds |-> SpiPositionKinds(precip, i, timescale),
         x |-> rolling_sum[i],
         sample |-> IF i - 1 < timescale - 1 THEN <<>> ELSE SampleData(rolling_sum, i)]

(* Gap-free tables of FitWindowBack + 1 to FitWindowBack + 1 + MaxExtra    *)
(* months: precipitation 1 everywhere, except for one month of 2 at the    *)
(* first, the second or the last position.                                 *)
LongTables ==
    {[i \in 1..len |-> MonthRecord(i - 1, IF i = high THEN 2 ELSE 1)] :
        len \in (FitWindowBack + 1)..(FitWindowBack + 1 + MaxExtra),
        high \in {0, 1, 2, FitWindowBack + 1 + MaxExtra}}

\* the iterations looked at: the first ones, and those around the cap
StepPositions(len) ==
    {i \in 1..len : i <= MaxK + 1 \/ i >= FitWindowBack - 1}

SpiStepCall ==
    /\ calculator = "CompositeIndex"
    /\ \E timescale \in 1..MaxK, i \in StepPositions(Len(data)) :
           /\ op' = "spi_step"
           /\ arg' = [timescale |-> timescale, i |-> i]
           /\ result' = Returned(SpiStep(DropNa(PrecipitationColumn(data)), i, timescale))
           /\ UNCHANGED <<calculator, data, temperature_data>>

InitWindow ==
    /\ calculator = "CompositeIndex"
    /\ temperature_data = NoTemperature
    /\ data \in LongTables
    /\ op = "init"
    /\ arg = [timescale |-> 0, i |-> 0]
    /\ result = Returned(<<>>)

NextWindow == SpiStepCall

SpecWindow == InitWindow /\ [][NextWindow]_vars

----------------------------------------------------------------------------
(* CompositeIndex: potential evapotranspiration and the moisture index.    *)
(*                                                                         *)
(* PET is kept in units of 0.00001: 0.7 * P is 70000 * P, and              *)
(* 0.0023 * 0.408 * T * 50 = 0.04692 * T is 4692 * T.  A moisture value is *)
(* the 0 that np.where fills in, nan, or the quotient (P - PET) / P kept   *)
(* as its numerator and denominator in the same units.                     *)
(* temperature_data is None, or a frame with a 'temperature' column whose  *)
(* index is the dates of the input ("date") or the default RangeIndex      *)
(* ("range"); assigning a column aligns on the index, so a frame that is   *)
(* not indexed by date leaves every PET missing.                           *)

MZero == [kind |-> "zero", num |-> 0, den |-> 1]
MNaN == [kind |-> "nan", num |-> 0, den |-> 1]
MRatio(num, den) == [kind |-> "ratio", num |-> num, den |-> den]

\* the value assigned to self.data['PET'] at row i
PetValue(table, temperature, i) ==
    IF temperature.index = "none"
    THEN IF IsNa(table[i].precipitation) THEN NaN ELSE 70000 * table[i].precipitation
    ELSE IF temperature.index = "date" /\ i <= Len(temperature.temperature)
              /\ ~IsNa(temperature.temperature[i])
         THEN 4692 * temperature.temperature[i]
         ELSE NaN

\* self.data after self.data['PET'] = ...
AssignPet(table, temperature) ==
    [i \in 1..Len(table) |->
        [year |-> table[i].year, month |-> table[i].month,
         precipitation |-> table[i].precipitation,
         PET |-> PetValue(table, temperature, i)]]

PetColumn(table) == [i \in 1..Len(table) |-> table[i].PET]

\* np.where(precipitation >= 0, (precipitation - pet) / precipitation, 0):
\* at precipitation 0 the quotient 0 / 0 is nan
MoistureIndexAtLeastZero(table) ==
    [i \in 1..Len(table) |->
        IF ~IsNa(table[i].precipitation) /\ table[i].precipitation >= 0
        THEN IF IsNa(table[i].PET) \/ table[i].precipitation = 0 THEN MNaN
             ELSE MRatio(100000 * table[i].precipitation - table[i].PET,
                         100000 * table[i].precipitation)
        ELSE MZero]

\* np.where(precipitation > 0, (precipitation - pet) / precipitation, 0)
\* over self.data with its PET column; nan > 0 is False
MoistureIndex(table) ==
    [i \in 1..Len(table) |->
        IF ~IsNa(table[i].precipitation) /\ table[i].precipitation > 0
        THEN IF IsNa(table[i].PET) THEN MNaN
             ELSE MRatio(100000 * table[i].precipitation - table[i].PET,
                         100000 * table[i].precipitation)
        ELSE MZero]

CalculatePotentialEvapotranspirationCall ==
    /\ calculator = "CompositeIndex"
    /\ op' = "calculate_potential_evapotranspiration"
    /\ arg' = 0
    /\ data' = AssignPet(data, temperature_data)
    /\ result' = Returned(PetColumn(data'))
    /\ UNCHANGED <<calculator, temperature_data>>

CalculateMoistureIndexCall ==
    /\ calculator = "CompositeIndex"
    /\ op' = "calculate_moisture_index"
    /\ arg' = 0
    /\ data' = AssignPet(data, temperature_data)
    /\ result' = Returned(MoistureIndex(data'))
    /\ UNCHANGED <<calculator, temperature_data>>

(* The inputs of the moisture index: tables of up to MaxMoistLen months    *)
(* with values missing or from -1 to MaxMoistP, and a temperature frame    *)
(* that is absent or holds one temperature, possibly missing, per row.     *)
MoistureTables ==
    {[i \in 1..Len(values) |-> MonthRecord(i - 1, values[i])] :
        values \in UNION {[1..len -> {NaN} \cup (-1..MaxMoistP)] : len \in 0..MaxMoistLen}}

TemperatureFrames(len) ==
    {NoTemperature} \cup
    {[index |-> ix, temperature |-> [i \in 1..len |-> IF i = miss THEN NaN ELSE t]] :
        ix \in {"date", "range"}, t \in {0, MaxTemperature}, miss \in {0, 1}}

InitMoisture ==
    /\ calculator = "CompositeIndex"
    /\ data \in MoistureTables
    /\ temperature_data \in TemperatureFrames(Len(data))
    /\ op = "init"
    /\ arg = 0
    /\ result = Returned(<<>>)

NextMoisture == CalculatePotentialEvapotranspirationCall \/ CalculateMoistureIndexCall

SpecMoisture == InitMoisture /\ [][NextMoisture]_vars

----------------------------------------------------------------------------
(* CompositeIndex.calculate_composite_index and CompositeIndex.calculate.  *)
(*                                                                         *)
(* CI = 0.47 * SPI_1month + 0.36 * SPI_3month + 0.96 * Moisture_Index is   *)
(* kept as its kind and its three terms: nan when a term is nan or when    *)
(* the two scores are infinite with opposite signs, infinite when a score  *)
(* is, finite otherwise.                                                   *)

CiNaN == [kind |-> "nan", spi_1month |-> SpiNaN, spi_3month |-> SpiNaN, moisture_index |-> MNaN]

CompositeValue(spi_1month, spi_3month, moisture_index) ==
    LET kinds == {spi_1month.kind, spi_3month.kind}
        kind == IF "nan" \in kinds \/ moisture_index.kind = "nan" THEN "nan"
                ELSE IF "posinf" \in kinds /\ "neginf" \in kinds THEN "nan"
                ELSE IF "posinf" \in kinds THEN "posinf"
                ELSE IF "neginf" \in kinds THEN "neginf"
                ELSE "fin"
    IN  IF kind = "nan" THEN CiNaN
        ELSE [kind |-> kind, spi_1month |-> spi_1month, spi_3month |-> spi_3month,
              moisture_index |-> moisture_index]

\* classify_ci_drought of a composite value: exact for a missing and for an
\* infinite value; the class of a finite value is not evaluated by the model
CiClassOf(ci) ==
    IF ci.kind = "nan" THEN CiCategory(NaN)
    ELSE IF ci.kind = "posinf" THEN "Normal"
    ELSE IF ci.kind = "neginf" THEN "Extreme Drought"
    ELSE "Unevaluated"

\* the result frame for given outcomes of the two calculate_spi calls
CompositeFrame(table, temperature, spi_1month, spi_3month) ==
    LET moisture_index == MoistureIndex(AssignPet(table, temperature))
    IN  [i \in 1..Len(table) |->
            LET ci == CompositeValue(spi_1month[i], spi_3month[i], moisture_index[i])
            IN  [year |-> table[i].year, month |-> table[i].month,
                 precipitation |-> table[i].precipitation,
                 SPI_1month |-> spi_1month[i], SPI_3month |-> spi_3month[i],
                 Moisture_Index |-> moisture_index[i],
                 Composite_Index |-> ci,
                 Drought_Class |-> CiClassOf(ci)]]

\* the outcomes of calculate_composite_index: an exception of either
\* calculate_spi call propagates
CalculateCompositeIndex(table, temperature) ==
    {IF ~o1.ok THEN o1
     ELSE IF ~o3.ok THEN o3
     ELSE Returned(CompositeFrame(table, temperature, o1.val, o3.val)) :
        o1 \in CalculateSpi(1, PrecipitationColumn(table)),
        o3 \in CalculateSpi(3, PrecipitationColumn(table))}

CiCalculate(table, temperature, frequency) ==
    IF frequency = "monthly" THEN CalculateCompositeIndex(table, temperature)
    ELSE {Raised("ValueError")}

\* the PET column is assigned once both calculate_spi calls have returned
CiCalculateCall ==
    /\ calculator = "CompositeIndex"
    /\ \E frequency \in Frequencies :
           \E outcome \in CiCalculate(data, temperature_data, frequency) :
               /\ op' = "ci_calculate"
               /\ arg' = frequency
               /\ result' = outcome
               /\ data' = IF outcome.ok THEN AssignPet(data, temperature_data) ELSE data
               /\ UNCHANGED <<calculator, temperature_data>>

----------------------------------------------------------------------------
(* CompositeIndex over tables without temperature data *)

InitCI ==
    /\ calculator = "CompositeIndex"
    /\ temperature_data = NoTemperature
    /\ data \in CiTables
    /\ op = "init"
    /\ arg = 0
    /\ result = Returned(<<>>)

NextCI ==
    \/ CalculateSpiCall
    \/ CalculatePotentialEvapotranspirationCall
    \/ CalculateMoistureIndexCall
    \/ CiCalculateCall

SpecCI == InitCI /\ [][NextCI]_vars

----------------------------------------------------------------------------
(* ModifiedChinaZIndex.compare_with_czi.                                   *)
(*                                                                         *)
(* The columns taken from the CZI table are aligned on the date index: a   *)
(* month without a row in the CZI table gets nan in CZI and in             *)
(* CZI_Drought_Class.  Difference is nan when either index is; the         *)
(* comparison of the two class columns is "True" or "False", and is not    *)
(* evaluated where the model does not evaluate one of the classes.         *)

MissingClass == "NaN"

DiffNaN == [kind |-> "nan", mczi |-> ZNaN, czi |-> ZNaN]

\* comparison_df['MCZI'] - comparison_df['CZI']
Difference(mczi, czi) ==
    IF ZIsNa(mczi) \/ ZIsNa(czi) THEN DiffNaN
    ELSE [kind |-> "diff", mczi |-> mczi, czi |-> czi]

\* comparison_df['Drought_Class'] == comparison_df['CZI_Drought_Class']
ClassAgreement(drought_class, czi_drought_class) ==
    IF czi_drought_class = MissingClass THEN "False"
    ELSE IF drought_class = "Unevaluated" \/ czi_drought_class = "Unevaluated"
         THEN "Unevaluated"
    ELSE IF drought_class = czi_drought_class THEN "True"
    ELSE "False"

\* the rows of czi_monthly with the date of the given row
Counterparts(czi_monthly, row) ==
    SelectSeq(czi_monthly, LAMBDA r : r.year = row.year /\ r.month = row.month)

CompareWithCzi(table, czi_table) ==
    LET mczi_monthly == CalculateMonthlyMczi(table)
        czi_monthly == CalculateMonthlyCzi(czi_table)
    IN  [i \in 1..Len(mczi_monthly) |->
            LET row == mczi_monthly[i]
                found == Counterparts(czi_monthly, row)
                czi == IF found = <<>> THEN ZNaN ELSE found[1].CZI
                czi_class == IF found = <<>> THEN MissingClass ELSE found[1].Drought_Class
            IN  [year |-> row.year, month |-> row.month,
                 precipitation |-> row.precipitation,
                 MCZI |-> row.MCZI, Drought_Class |-> row.Drought_Class,
                 CZI |-> czi, CZI_Drought_Class |-> czi_class,
                 Difference |-> Difference(row.MCZI, czi),
                 Class_Agreement |-> ClassAgreement(row.Drought_Class, czi_class)]]

(* The tables of the two calculators: up to MaxCmpLen months each *)
CompareTables == Tables(MaxCmpLen, MaxP)

CompareWithCziCall ==
    /\ calculator = "ModifiedChinaZIndex"
    /\ \E czi_table \in CompareTables :
           /\ op' = "compare_with_czi"
           /\ arg' = czi_table
           /\ result' = Returned(CompareWithCzi(data, czi_table))
           /\ UNCHANGED <<calculator, data, temperature_data>>

InitCompare ==
    /\ calculator = "ModifiedChinaZIndex"
    /\ temperature_data = NoTemperature
    /\ data \in CompareTables
    /\ op = "init"
    /\ arg = <<>>
    /\ result = Returned(<<>>)

NextCompare == CompareWithCziCall

SpecCompare == InitCompare /\ [][NextCompare]_vars

----------------------------------------------------------------------------
(* The three calculators together: any calculator over its input table,    *)
(* and any sequence of calls of its methods.                               *)

InitCalls == Init \/ InitCI

NextCalls == Next \/ NextCI

SpecCalls == InitCalls /\ [][NextCalls]_vars

----------------------------------------------------------------------------
(* Classifier calls *)

ClassifyDroughtCall ==
    \E v \in IndexValues :
        /\ op' = "classify_drought"
        /\ arg' = v
        /\ result' = Returned(ClassifyDrought(v))
        /\ UNCHANGED <<calculator, data, temperature_data>>

ClassifyCiDroughtCall ==
    \E a \in CiArrays :
        /\ op' = "classify_ci_drought"
        /\ arg' = a
        /\ result' = Returned(ClassifyCiDroughtValues(a))
        /\ UNCHANGED <<calculator, data, temperature_data>>

InitClassifier ==
    /\ calculator = "CompositeIndex"
    /\ temperature_data = NoTemperature
    /\ data = <<>>
    /\ op = "init"
    /\ arg = NaN
    /\ result = Returned(NaN)

NextClassifier == ClassifyDroughtCall \/ ClassifyCiDroughtCall

SpecClassifier == InitClassifier /\ [][NextClassifier]_vars

----------------------------------------------------------------------------
(* calculate_czi and calculate_mczi on a series of equal decimal values.   *)
(*                                                                         *)
(* Here a precipitation value is a number of tenths (123 is 12.3), read as *)
(* the nearest IEEE double, and the mean is computed as the code computes  *)
(* it: the values are added one by one, each partial sum rounded to 53     *)
(* significant bits, and the last sum is divided by n, rounded again.      *)
(* (For up to 8 equal values numpy's and pandas' summation orders all give *)
(* this sum.)  A double is an integer count of quarter units in the last   *)
(* place of the series' value, held in three limbs of 20 bits, most        *)
(* significant first.                                                      *)

LimbBase == 2^20

Big(h, m, l) ==
    <<h + ((m + (l \div LimbBase)) \div LimbBase), (m + (l \div LimbBase)) % LimbBase, l % LimbBase>>

BigAdd(a, b) == Big(a[1] + b[1], a[2] + b[2], a[3] + b[3])

BigScale(a, c) == Big(c * a[1], c * a[2], c * a[3])

\* a >= 2^k, for k >= 40
BigAtLeastPow2(a, k) == a[1] >= 2^(k - 40)

\* the quotient of a by the small integer y, rounded to nearest, ties to even
BigDivNearest(a, y) ==
    LET qh == a[1] \div y
        t1 == (a[1] % y) * LimbBase + a[2]
        qm == t1 \div y
        t2 == (t1 % y) * LimbBase + a[3]
        ql == t2 \div y
        r == t2 % y
        up == 2 * r > y \/ (2 * r = y /\ ql % 2 = 1)
    IN  Big(qh, qm, IF up THEN ql + 1 ELSE ql)

BigDivFloor(a, y) ==
    LET t1 == (a[1] % y) * LimbBase + a[2]
        t2 == (t1 % y) * LimbBase + a[3]
    IN  <<a[1] \div y, t1 \div y, t2 \div y>>

\* the number of bits by which a exceeds 53 significant bits
ExcessBits(a) ==
    IF ~BigAtLeastPow2(a, 53) THEN 0
    ELSE MaxOf({e \in 1..7 : BigAtLeastPow2(a, 52 + e)})

\* the double nearest to a / y
DoubleDiv(a, y) ==
    LET e == ExcessBits(BigDivFloor(a, y))
    IN  BigScale(BigDivNearest(a, y * 2^e), 2^e)

\* float(k / 10): the double nearest to k tenths, in quarter units of its last place
DoubleOfTenths(k) ==
    LET s == CHOOSE t \in 0..20 : 10 * 2^12 <= k * 2^t /\ k * 2^t < 10 * 2^13
    IN  BigScale(DoubleDiv(<<k * 2^s, 0, 0>>, 10), 4)

\* the sum of n doubles v, added one by one
RECURSIVE DoubleSum(_, _)
DoubleSum(v, n) ==
    IF n = 1 THEN v ELSE DoubleDiv(BigAdd(DoubleSum(v, n - 1), v), 1)

\* -1, 0 or 1 as a is below, equal to or above b
BigCompare(a, b) ==
    IF a = b THEN 0
    ELSE IF \/ a[1] < b[1]
            \/ (a[1] = b[1] /\ a[2] < b[2])
            \/ (a[1] = b[1] /\ a[2] = b[2] /\ a[3] < b[3]) THEN -1
    ELSE 1

\* the sign of x - np.mean(precip) for n values precip all equal to k tenths
MeanDeviationSign(k, n) ==
    LET x == DoubleOfTenths(k)
    IN  BigCompare(x, DoubleDiv(DoubleSum(x, n), n))

\* the one non-missing value of the series
EqualValue(precipitation_series) == DropNa(precipitation_series)[1]

\* calculate_czi: the deviations x - mean are all d; std is 0 exactly when d is;
\* otherwise skewness = d^3 / std^3 is not 0 and (skewness/2)*z + 1 exceeds 1
CalculateCziEqual(precipitation_series) ==
    LET n == Len(DropNa(precipitation_series))
        d == MeanDeviationSign(EqualValue(precipitation_series), n)
    IN  IF n < 2 THEN [i \in 1..Len(precipitation_series) |-> ZNaN]
        ELSE IF d = 0 THEN [i \in 1..Len(precipitation_series) |-> ZZero]
        ELSE [i \in 1..Len(precipitation_series) |->
                 IF IsNa(precipitation_series[i]) THEN ZNaN
                 ELSE PowerOneThird("wh", FALSE, d, d, 1, n)]

\* calculate_mczi: np.median of equal values is the value, so the deviations
\* x - median and the skewness are 0 and the index is the z score 0 / std
CalculateMcziEqual(precipitation_series) ==
    LET n == Len(DropNa(precipitation_series))
        d == MeanDeviationSign(EqualValue(precipitation_series), n)
    IN  IF n < 2 THEN [i \in 1..Len(precipitation_series) |-> ZNaN]
        ELSE IF d = 0 THEN [i \in 1..Len(precipitation_series) |-> ZZero]
        ELSE [i \in 1..Len(precipitation_series) |->
                 IF IsNa(precipitation_series[i]) THEN ZNaN
                 ELSE ZReal("z", 0, 0, 1, n)]

\* the index value is exactly 0
ZIsZero(z) == z.kind = "zero" \/ (z.kind = "z" /\ z.d = 0)

(* The precipitation_series argument, held in data: up to MaxZLen          *)
(* positions, each missing or holding the one value of the series, a whole *)
(* number of tenths up to MaxTenths.                                       *)
EqualSeries ==
    {[i \in 1..len |-> IF i \in present THEN k ELSE NaN] :
        len \in 1..MaxZLen, present \in SUBSET (1..MaxZLen), k \in 1..MaxTenths}

CalculateCziCall ==
    /\ calculator = "ChinaZIndex"
    /\ op' = "calculate_czi"
    /\ arg' = data
    /\ result' = Returned(CalculateCziEqual(data))
    /\ UNCHANGED <<calculator, data, temperature_data>>

CalculateMcziCall ==
    /\ calculator = "ModifiedChinaZIndex"
    /\ op' = "calculate_mczi"
    /\ arg' = data
    /\ result' = Returned(CalculateMcziEqual(data))
    /\ UNCHANGED <<calculator, data, temperature_data>>

InitZ ==
    /\ calculator \in {"ChinaZIndex", "ModifiedChinaZIndex"}
    /\ temperature_data = NoTemperature
    /\ data \in EqualSeries
    /\ op = "init"
    /\ arg = <<>>
    /\ result = Returned(<<>>)

NextZ == CalculateCziCall \/ CalculateMcziCall

SpecZ == InitZ /\ [][NextZ]_vars

----------------------------------------------------------------------------
(* Construction: BaseDroughtIndex.__init__ and _validate_data.             *)
(*                                                                         *)
(* The frame passed to a constructor has any subset of the columns year,   *)
(* month, precipitation and station, and up to MaxFrameRows rows.  Before  *)
(* a construction succeeds there is no calculator object.                  *)

RequiredColumns == {"year", "month", "precipitation"}

FrameColumns == RequiredColumns \cup {"station"}

FrameCell(column, i) ==
    IF column = "year" THEN BaseYear
    ELSE IF column = "month" THEN i
    ELSE IF column = "precipitation" THEN 1
    ELSE 0

Frames ==
    {[columns |-> columns,
      rows |-> [i \in 1..len |-> [c \in columns |-> FrameCell(c, i)]]] :
        columns \in SUBSET FrameColumns, len \in 0..MaxFrameRows}

\* not any(col in self.data.columns for col in required_columns)
ColumnsInvalidAny(columns) == RequiredColumns \cap columns = {}

\* not all(col in self.data.columns for col in required_columns)
ColumnsInvalid(columns) == ~(RequiredColumns \subseteq columns)

\* ValueError(f"Data must contain columns: {required_columns}")
SchemaError == [type |-> "ValueError", names |-> RequiredColumns]

Classes == {"ChinaZIndex", "ModifiedChinaZIndex", "CompositeIndex"}

ConstructCall ==
    \E class \in Classes, frame \in Frames :
        /\ calculator = "none"
        /\ op' = "construct"
        /\ arg' = [class |-> class, columns |-> frame.columns, rows |-> frame.rows]
        /\ IF ColumnsInvalid(frame.columns)
           THEN /\ result' = Raised(SchemaError)
                /\ UNCHANGED <<calculator, data>>
           ELSE /\ result' = Returned(class)
                /\ calculator' = class
                /\ data' = frame.rows
        /\ UNCHANGED temperature_data

InitConstruct ==
    /\ calculator = "none"
    /\ temperature_data = NoTemperature
    /\ data = <<>>
    /\ op = "init"
    /\ arg = [class |-> "none", columns |-> {}, rows |-> <<>>]
    /\ result = Returned("none")

NextConstruct == ConstructCall

SpecConstruct == InitConstruct /\ [][NextConstruct]_vars

----------------------------------------------------------------------------
(* Properties.  Helpers that read a table directly, independent of the     *)
(* grouping operators above.                                               *)

HasMonth(table, y, m) == \E i \in 1..Len(table) : table[i].year = y /\ table[i].month = m

MonthPrecip(table, y, m) ==
    LET i == CHOOSE j \in 1..Len(table) : table[j].year = y /\ table[j].month = m
    IN  table[i].precipitation

\* the non-missing precipitation of month (y, m), 0 when the month has no row
MonthPrecipOrZero(table, y, m) ==
    IF HasMonth(table, y, m) /\ ~IsNa(MonthPrecip(table, y, m))
    THEN MonthPrecip(table, y, m) ELSE 0

YearComplete(table, y) ==
    \A m \in 1..12 : HasMonth(table, y, m) /\ ~IsNa(MonthPrecip(table, y, m))

\* January of the first year through December of the last, no month absent
CoversCompleteYears(table) ==
    /\ table # <<>>
    /\ \A y \in MinOf(TableYears(table))..MaxOf(TableYears(table)) :
           \A m \in 1..12 : HasMonth(table, y, m)

NumberOfYears(table) == MaxOf(TableYears(table)) - MinOf(TableYears(table)) + 1

IsMonthly(name) == op = name /\ arg = "monthly" /\ result.ok
IsSeasonal == op \in {"czi_calculate", "mczi_calculate"} /\ arg = "seasonal" /\ result.ok
IsAnnual == op \in {"czi_calculate", "mczi_calculate"} /\ arg = "annual" /\ result.ok

\* C1 (as stated): classify_ci_drought maps exactly -0.6 to 'Normal' and
\* -0.60001 to 'Mild Drought'; -1.2, -1.8 and -2.4 belong to the milder bin
\* (Mild, Moderate, Severe Drought) and everything below -2.4 is 'Extreme Drought'.
C1_CiBoundaryAsStated ==
    op = "classify_ci_drought" =>
        \A i \in 1..Len(arg) :
            /\ arg[i] = -60000 => result.val[i] = "Normal"
            /\ arg[i] = -60001 => result.val[i] = "Mild Drought"
            /\ arg[i] = -120000 => result.val[i] = "Mild Drought"
            /\ arg[i] = -180000 => result.val[i] = "Moderate Drought"
            /\ arg[i] = -240000 => result.val[i] = "Severe Drought"
            /\ (~IsNa(arg[i]) /\ arg[i] < -240000) => result.val[i] = "Extreme Drought"

\* C1 (amended): classify_ci_drought maps every value strictly above -0.6 to
\* 'Normal' and exactly -0.6, like -0.60001, to 'Mild Drought'; -1.2, -1.8 and
\* -2.4 belong to the milder bin and everything below -2.4 is 'Extreme Drought'.
C1_CiBoundary ==
    op = "classify_ci_drought" =>
        /\ Len(result.val) = Len(arg)
        /\ \A i \in 1..Len(arg) :
            /\ (~IsNa(arg[i]) /\ arg[i] > -60000) => result.val[i] = "Normal"
            /\ arg[i] = -60000 => result.val[i] = "Mild Drought"
            /\ arg[i] = -60001 => result.val[i] = "Mild Drought"
            /\ arg[i] = -120000 => result.val[i] = "Mild Drought"
            /\ arg[i] = -120001 => result.val[i] = "Moderate Drought"
            /\ arg[i] = -180000 => result.val[i] = "Moderate Drought"
            /\ arg[i] = -180001 => result.val[i] = "Severe Drought"
            /\ arg[i] = -240000 => result.val[i] = "Severe Drought"
            /\ (~IsNa(arg[i]) /\ arg[i] < -240000) => result.val[i] = "Extreme Drought"

C1_Witness ==
    /\ op = "classify_ci_drought"
    /\ arg = <<-60000, -59999>>
    /\ result.val = <<"Mild Drought", "Normal">>

\* the nine-bin reference table of the CZI / MCZI scale, wettest first
NineBinTable ==
    << <<200000, "Extremely Wet">>, <<150000, "Severe Wet">>, <<100000, "Moderate Wet">>,
       <<50000, "Mild Wet">>, <<-49000, "Normal">>, <<-99000, "Mild Drought">>,
       <<-149000, "Moderate Drought">>, <<-199000, "Severe Drought">> >>

NineBinClass(v) ==
    IF IsNa(v) THEN "No Data"
    ELSE IF \A j \in 1..Len(NineBinTable) : v < NineBinTable[j][1] THEN "Extreme Drought"
    ELSE NineBinTable[MinOf({j \in 1..Len(NineBinTable) : v >= NineBinTable[j][1]})][2]

\* C2: classify_drought equals the nine-bin reference table for every input
\* (v >= 2.0 Extremely Wet, ..., v >= -1.99 Severe Drought, otherwise Extreme
\* Drought, missing gives 'No Data'); classify(2.0) is 'Extremely Wet',
\* classify(-0.49) is 'Normal' and classify(-0.5) is 'Mild Drought'.
C2_NineBinTable ==
    op = "classify_drought" =>
        /\ result.val = NineBinClass(arg)
        /\ arg = 200000 => result.val = "Extremely Wet"
        /\ arg = -49000 => result.val = "Normal"
        /\ arg = -50000 => result.val = "Mild Drought"
        /\ IsNa(arg) => result.val = "No Data"

C2_Witness ==
    /\ op = "classify_drought"
    /\ arg = -49000
    /\ result.val = "Normal"

\* C3: calculate_czi / calculate_mczi give a missing output at every position
\* where the input is missing, also when the non-missing values are all equal,
\* and such a position is classified 'No Data'.
C3_MissingPassesThrough ==
    /\ IsMonthly("czi_calculate") =>
           \A i \in 1..Len(data) :
               IsNa(data[i].precipitation) =>
                   ZIsNa(result.val[i].CZI) /\ result.val[i].Drought_Class = "No Data"
    /\ IsMonthly("mczi_calculate") =>
           \A i \in 1..Len(data) :
               IsNa(data[i].precipitation) =>
                   ZIsNa(result.val[i].MCZI) /\ result.val[i].Drought_Class = "No Data"

HasDispersion(table) ==
    /\ Len(DropNa(PrecipitationColumn(table))) >= 2
    /\ StdQ(DropNa(PrecipitationColumn(table))) # 0

\* C4: for a series with at least 2 non-missing values and non-zero dispersion,
\* every non-missing input element yields a non-missing real output, also when
\* the cube-root base (skew/2)*z + 1 is negative.
C4_RealCubeRoot ==
    /\ (IsMonthly("czi_calculate") /\ HasDispersion(data)) =>
           \A i \in 1..Len(data) :
               ~IsNa(data[i].precipitation) => ~ZIsNa(result.val[i].CZI)
    /\ (IsMonthly("mczi_calculate") /\ HasDispersion(data)) =>
           \A i \in 1..Len(data) :
               ~IsNa(data[i].precipitation) => ~ZIsNa(result.val[i].MCZI)

\* some month among the timescale months ending at row i is missing
ContributingMissing(table, i, timescale) ==
    \E j \in 1..i : j > i - timescale /\ IsNa(table[j].precipitation)

\* C5: calculate_spi returns a series of the same length as its input for every
\* input series and timescale, including series with missing months: it raises
\* no error, and the score is missing wherever a contributing month is missing.
C5_SpiSameLength ==
    op = "calculate_spi" =>
        /\ result.ok
        /\ Len(result.val) = Len(data)
        /\ \A i \in 1..Len(data) :
               ContributingMissing(data, i, arg) => result.val[i].kind = "nan"

\* C6: for every series and every timescale k >= 1, the series calculate_spi
\* returns is missing at each of its first k-1 positions.
C6_SpiWarmupMissing ==
    (op = "calculate_spi" /\ result.ok) =>
        \A i \in 1..Len(result.val) : i <= arg - 1 => result.val[i].kind = "nan"

C6_Witness ==
    /\ op = "calculate_spi" /\ result.ok
    /\ arg = 3
    /\ Len(result.val) = 4
    /\ result.val[1].kind = "nan" /\ result.val[2].kind = "nan"
    /\ result.val[4].kind = "fin"

\* C7: every non-missing score produced by calculate_spi is finite, also when
\* the fitted gamma CDF of the current rolling sum is exactly 0 or exactly 1.
C7_SpiFinite ==
    (op = "calculate_spi" /\ result.ok) =>
        \A i \in 1..Len(result.val) : result.val[i].kind \in {"nan", "fin"}

\* the years Y whose winter (December Y, January and February Y+1) has a row
WinterYears(table) ==
    {table[i].year : i \in {j \in 1..Len(table) : table[j].month = 12}}
        \cup {table[i].year - 1 : i \in {j \in 1..Len(table) : table[j].month \in {1, 2}}}

WinterRows(rows, y) == {j \in 1..Len(rows) : rows[j].season = "Winter" /\ rows[j].year = y}

\* C8: in the seasonal result a December of year Y is summed with January and
\* February of year Y+1 into a single 'Winter' row, reported with year = Y.
C8_WinterYear ==
    IsSeasonal =>
        /\ \A y \in WinterYears(data) :
              /\ Cardinality(WinterRows(result.val, y)) = 1
              /\ \A j \in WinterRows(result.val, y) :
                     result.val[j].precipitation =
                         MonthPrecipOrZero(data, y, 12) + MonthPrecipOrZero(data, y + 1, 1)
                             + MonthPrecipOrZero(data, y + 1, 2)
        /\ \A j \in 1..Len(result.val) :
              result.val[j].season = "Winter" => result.val[j].year \in WinterYears(data)

C8_Witness ==
    /\ IsSeasonal
    /\ HasMonth(data, BaseYear, 12) /\ HasMonth(data, BaseYear + 1, 1)
    /\ HasMonth(data, BaseYear + 1, 2)
    /\ MonthPrecip(data, BaseYear, 12) = 1 /\ MonthPrecip(data, BaseYear + 1, 1) = MaxP
    /\ \E j \in 1..Len(result.val) :
           /\ result.val[j].season = "Winter" /\ result.val[j].year = BaseYear
           /\ result.val[j].precipitation = 1 + MaxP + 1

\* C9: for an input covering N complete calendar years (January of the first
\* through December of the last, no month absent) the seasonal result has
\* exactly 4*N rows.
C9_FourSeasonsPerYear ==
    (IsSeasonal /\ CoversCompleteYears(data)) =>
        Len(result.val) = 4 * NumberOfYears(data)

\* C10: the annual result has exactly one row per distinct calendar year of the
\* input, and for every year with all 12 months present and non-missing the
\* row's precipitation equals the sum of that year's 12 monthly values.
C10_AnnualSum ==
    IsAnnual =>
        /\ Len(result.val) = Cardinality(TableYears(data))
        /\ \A y \in TableYears(data) :
              /\ Cardinality({j \in 1..Len(result.val) : result.val[j].year = y}) = 1
              /\ YearComplete(data, y) =>
                     \A j \in 1..Len(result.val) :
                         result.val[j].year = y =>
                             result.val[j].precipitation =
                                 SeqSum([m \in 1..12 |-> MonthPrecip(data, y, m)])

C10_Witness ==
    /\ IsAnnual
    /\ YearComplete(data, BaseYear)
    /\ MonthPrecip(data, BaseYear, 12) = MaxP
    /\ \E j \in 1..Len(result.val) :
           result.val[j].year = BaseYear /\ result.val[j].precipitation = 11 + MaxP

\* C11: for a series whose non-missing values are all equal (at least 2 of
\* them), calculate_czi and calculate_mczi give exactly 0 at every position
\* holding a non-missing input.
C11_ZeroDispersion ==
    (op \in {"calculate_czi", "calculate_mczi"} /\ Len(DropNa(data)) >= 2) =>
        \A i \in 1..Len(data) : ~IsNa(data[i]) => ZIsZero(result.val[i])

FewValues(table) == Len(DropNa(PrecipitationColumn(table))) < 2

\* C12: for a series with fewer than 2 non-missing values (a series of length 1
\* in particular) calculate_czi / calculate_mczi raise no error and return a
\* series of the same length whose every element is missing and classified
\* 'No Data'.
C12_TooFewValues ==
    /\ (op = "czi_calculate" /\ arg = "monthly" /\ FewValues(data)) =>
           /\ result.ok
           /\ Len(result.val) = Len(data)
           /\ \A i \in 1..Len(data) :
                  ZIsNa(result.val[i].CZI) /\ result.val[i].Drought_Class = "No Data"
    /\ (op = "mczi_calculate" /\ arg = "monthly" /\ FewValues(data)) =>
           /\ result.ok
           /\ Len(result.val) = Len(data)
           /\ \A i \in 1..Len(data) :
                  ZIsNa(result.val[i].MCZI) /\ result.val[i].Drought_Class = "No Data"
    /\ (op = "czi_calculate" /\ arg \in {"seasonal", "annual"} /\ result.ok
            /\ Len(result.val) = 1) =>
           ZIsNa(result.val[1].CZI) /\ result.val[1].Drought_Class = "No Data"
    /\ (op = "mczi_calculate" /\ arg \in {"seasonal", "annual"} /\ result.ok
            /\ Len(result.val) = 1) =>
           ZIsNa(result.val[1].MCZI) /\ result.val[1].Drought_Class = "No Data"

C12_Witness ==
    /\ IsMonthly("czi_calculate")
    /\ Len(data) = 2
    /\ data[1].precipitation = 1 /\ IsNa(data[2].precipitation)
    /\ ZIsNa(result.val[1].CZI) /\ result.val[1].Drought_Class = "No Data"
    /\ ZIsNa(result.val[2].CZI) /\ result.val[2].Drought_Class = "No Data"

\* C13: calculate_moisture_index yields exactly 0 at every position where
\* precipitation is <= 0, never NaN or infinite there, and (P - PET) / P at
\* every position where precipitation is > 0.
C13_MoistureZero ==
    op = "calculate_moisture_index" =>
        /\ result.ok
        /\ Len(result.val) = Len(data)
        /\ \A i \in 1..Len(data) :
              LET P == data[i].precipitation
              IN  /\ (~IsNa(P) /\ P <= 0) => result.val[i] = MZero
                  /\ (~IsNa(P) /\ P > 0 /\ ~IsNa(data[i].PET)) =>
                         result.val[i] = MRatio(100000 * P - data[i].PET, 100000 * P)
                  /\ (~IsNa(P) /\ P > 0 /\ IsNa(data[i].PET)) =>
                         result.val[i].kind = "nan"

C13_Witness ==
    /\ op = "calculate_moisture_index"
    /\ Len(data) = 3
    /\ data[1].precipitation = 0 /\ result.val[1] = MZero
    /\ data[2].precipitation = -1 /\ result.val[2] = MZero
    /\ data[3].precipitation = 2 /\ result.val[3] = MRatio(60000, 200000)

C15_FrequencyDispatch ==
    /\ op \in {"czi_calculate", "mczi_calculate"} =>
           IF arg \in {"monthly", "seasonal", "annual"} THEN result.ok
           ELSE ~result.ok /\ result.val = "ValueError"
    /\ op = "ci_calculate" =>
           IF arg = "monthly" THEN result.ok
           ELSE ~result.ok /\ result.val = "ValueError"

\* C16: compare_with_czi returns one row per month of the MCZI table, with
\* Difference = MCZI - CZI and Class_Agreement = (the two classes are equal);
\* for a month without a row in the CZI table both Difference and
\* Class_Agreement are missing (Class_Agreement is not False).
C16_CompareMissingCounterpart ==
    op = "compare_with_czi" =>
        /\ Len(result.val) = Len(data)
        /\ \A i \in 1..Len(data) :
              LET row == result.val[i]
              IN  /\ row.year = data[i].year /\ row.month = data[i].month
                  /\ row.Difference = Difference(row.MCZI, row.CZI)
                  /\ IF HasMonth(arg, data[i].year, data[i].month)
                     THEN row.Class_Agreement =
                              ClassAgreement(row.Drought_Class, row.CZI_Drought_Class)
                     ELSE /\ row.Difference.kind = "nan"
                          /\ row.Class_Agreement = MissingClass

\* the categories of the two tables, wettest first
DroughtOrder ==
    <<"Extremely Wet", "Severe Wet", "Moderate Wet", "Mild Wet", "Normal",
      "Mild Drought", "Moderate Drought", "Severe Drought", "Extreme Drought">>

CiOrder ==
    <<"Normal", "Mild Drought", "Moderate Drought", "Severe Drought", "Extreme Drought">>

IsCategory(order, c) == \E j \in 1..Len(order) : order[j] = c

Rank(order, c) == CHOOSE j \in 1..Len(order) : order[j] = c

RealIndexValues == IndexValues \ {NaN}

\* C17: both classifiers are total and monotonic: every non-missing input gets
\* exactly one category of its table, and for x <= y the category of x is
\* never wetter (earlier in the wet-to-dry order) than the category of y.
C17_TotalMonotonic ==
    /\ (op = "classify_drought" /\ ~IsNa(arg)) =>
           /\ IsCategory(DroughtOrder, result.val)
           /\ \A y \in RealIndexValues :
                  /\ IsCategory(DroughtOrder, ClassifyDrought(y))
                  /\ arg <= y =>
                         Rank(DroughtOrder, result.val) >= Rank(DroughtOrder, ClassifyDrought(y))
                  /\ y <= arg =>
                         Rank(DroughtOrder, ClassifyDrought(y)) >= Rank(DroughtOrder, result.val)
    /\ op = "classify_ci_drought" =>
           /\ Len(result.val) = Len(arg)
           /\ \A i \in 1..Len(arg) :
                  ~IsNa(arg[i]) =>
                      /\ IsCategory(CiOrder, result.val[i])
                      /\ \A j \in 1..Len(arg) :
                             (~IsNa(arg[j]) /\ arg[i] <= arg[j]) =>
                                 Rank(CiOrder, result.val[i]) >= Rank(CiOrder, result.val[j])
                      /\ \A y \in RealIndexValues :
                             arg[i] <= y =>
                                 Rank(CiOrder, result.val[i]) >= Rank(CiOrder, CiCategory(y))

C17_Witness ==
    /\ op = "classify_ci_drought"
    /\ arg = <<-120000, -120001>>
    /\ result.val = <<"Mild Drought", "Moderate Drought">>

\* the table the calculator was constructed from: the three input columns
InputTable(table) ==
    [i \in 1..Len(table) |->
        [year |-> table[i].year, month |-> table[i].month,
         precipitation |-> table[i].precipitation]]

HasColumn(table, column) == table # <<>> /\ column \in DOMAIN table[1]

\* C18: after any sequence of calculate calls on one calculator (monthly,
\* seasonal, annual in any order, repeated, failed calls included) the last
\* call has returned what the same call returns as the first call on a fresh
\* calculator over the same input.
C18_HistoryIndependent ==
    /\ op = "czi_calculate" => result = CziCalculate(InputTable(data), arg)
    /\ op = "mczi_calculate" => result = McziCalculate(InputTable(data), arg)
    /\ op = "ci_calculate" =>
           result \in CiCalculate(InputTable(data), temperature_data, arg)

C18_Witness ==
    /\ calculator = "ChinaZIndex"
    /\ op = "czi_calculate" /\ arg = "annual" /\ result.ok
    /\ HasColumn(data, "year_season")
    /\ Len(data) = MaxLen
    /\ Len(result.val) = 2

\* the k-month sum ending at month p of a gap-free table
MonthsSum(table, p, k) == SeqSum([j \in 1..k |-> table[p - k + j].precipitation])

\* the rolling sums at positions max(0, i-359) through i (counted from 0) of a
\* gap-free table, read from the table itself; i here is counted from 1
WindowSums(table, i, k) ==
    LET first == MaxOf({1, i - 359, k})
    IN  [j \in 1..(i - first + 1) |-> MonthsSum(table, first + j - 1, k)]

\* the table without the months before the window of position i
WindowOnly(table, i, k) ==
    LET first == MaxOf({1, i - 359 - (k - 1)})
    IN  SubSeq(table, first, i)

\* C19: the SPI score at position i is determined only by the rolling sums at
\* positions max(0, i-359) through i, at most 360 of them: a gap-free series
\* that agrees with the input on all months up to and including i (the input
\* cut after month i, or any other input table) gives the same score at i.
C19_WindowOnly ==
    (op = "spi_step" /\ arg.i >= arg.timescale) =>
        /\ Len(result.val.sample) <= 360
        /\ result.val.sample = WindowSums(data, arg.i, arg.timescale)
        /\ result.val.x = MonthsSum(data, arg.i, arg.timescale)
        /\ result.val =
               SpiStep(PrecipitationColumn(SubSeq(data, 1, arg.i)), arg.i, arg.timescale)
        /\ \A other \in LongTables :
               (Len(other) >= arg.i /\ SubSeq(other, 1, arg.i) = SubSeq(data, 1, arg.i)) =>
                   result.val = SpiStep(PrecipitationColumn(other), arg.i, arg.timescale)
        /\ LET window == WindowOnly(data, arg.i, arg.timescale)
           IN  result.val =
                   SpiStep(PrecipitationColumn(window), Len(window), arg.timescale)

C19_Witness ==
    /\ op = "spi_step"
    /\ arg.timescale = 1
    /\ arg.i = FitWindowBack + 2
    /\ Len(data) = FitWindowBack + 3
    /\ data[1].precipitation = 2
    /\ Len(result.val.sample) = 360
    /\ result.val.kinds = {"error", "nan", "fin"}

GapFree(table) == \A i \in 1..Len(table) : ~IsNa(table[i].precipitation)

\* C20: for a gap-free series the series calculate_spi returns at timescale k
\* is missing also at position k-1 (counted from 0), where the fitting window
\* holds one defined rolling sum; so in the CI monthly result Composite_Index
\* is missing and Drought_Class is 'No Data' at the first three rows, and at
\* every row of a series shorter than 4 months.
C20_FirstRowsMissing ==
    /\ (op = "calculate_spi" /\ result.ok /\ GapFree(data)) =>
           \A i \in 1..Len(result.val) : i <= arg => result.val[i].kind = "nan"
    /\ (op = "ci_calculate" /\ result.ok /\ GapFree(data)) =>
           /\ Len(result.val) = Len(data)
           /\ \A i \in 1..Len(result.val) :
                  i <= 3 =>
                      /\ result.val[i].SPI_3month.kind = "nan"
                      /\ result.val[i].Composite_Index.kind = "nan"
                      /\ result.val[i].Drought_Class = "No Data"

C20_Witness ==
    /\ op = "ci_calculate" /\ result.ok /\ GapFree(data)
    /\ Len(result.val) = 4
    /\ \A i \in 1..3 : result.val[i].Composite_Index.kind = "nan"
                         /\ result.val[i].Drought_Class = "No Data"
    /\ result.val[2].SPI_1month.kind = "fin"
    /\ result.val[4].SPI_3month.kind = "fin"
    /\ result.val[4].Composite_Index.kind = "fin"

\* the (year, season) a monthly record is reported under
ReportedSeason(rec) ==
    IF rec.month = 12 THEN <<rec.year, "Winter">>
    ELSE IF rec.month \in {1, 2} THEN <<rec.year - 1, "Winter">>
    ELSE IF rec.month \in {3, 4, 5} THEN <<rec.year, "Spring">>
    ELSE IF rec.month \in {6, 7, 8} THEN <<rec.year, "Summer">>
    ELSE <<rec.year, "Fall">>

RowSeason(row) == <<row.year, row.season>>

\* the sum of the non-missing monthly precipitation values of the records i in S
MonthlySum(table, S) ==
    SeqSum([i \in 1..Len(table) |->
               IF i \in S /\ ~IsNa(table[i].precipitation)
               THEN table[i].precipitation ELSE 0])

AllRecords(table) == 1..Len(table)

\* C21: aggregation partitions the monthly records: every monthly record
\* contributes to exactly one seasonal row and to exactly one annual row, each
\* row holds the sum of the non-missing values of its records, so the sum of
\* the precipitation column over the seasonal rows and over the annual rows
\* equals the sum of all non-missing monthly values, and no two seasonal rows
\* share the same reported (year, season).
C21_AggregationPartitions ==
    /\ IsSeasonal =>
           /\ \A i \in AllRecords(data) :
                  Cardinality({j \in 1..Len(result.val) :
                                  RowSeason(result.val[j]) = ReportedSeason(data[i])}) = 1
           /\ \A j \in 1..Len(result.val) :
                  /\ \E i \in AllRecords(data) :
                         ReportedSeason(data[i]) = RowSeason(result.val[j])
                  /\ result.val[j].precipitation =
                         MonthlySum(data, {i \in AllRecords(data) :
                                             ReportedSeason(data[i]) = RowSeason(result.val[j])})
           /\ \A j1, j2 \in 1..Len(result.val) :
                  RowSeason(result.val[j1]) = RowSeason(result.val[j2]) => j1 = j2
           /\ SeqSum(PrecipitationColumn(result.val)) = MonthlySum(data, AllRecords(data))
    /\ IsAnnual =>
           /\ \A i \in AllRecords(data) :
                  Cardinality({j \in 1..Len(result.val) :
                                  result.val[j].year = data[i].year}) = 1
           /\ \A j \in 1..Len(result.val) :
                  result.val[j].precipitation =
                      MonthlySum(data, {i \in AllRecords(data) :
                                          data[i].year = result.val[j].year})
           /\ SeqSum(PrecipitationColumn(result.val)) = MonthlySum(data, AllRecords(data))

C21_Witness ==
    /\ IsSeasonal
    /\ \E i \in AllRecords(data) : IsNa(data[i].precipitation)
    /\ \E i \in AllRecords(data) : data[i].precipitation = MaxP
    /\ \E i, k \in AllRecords(data) :
           /\ data[i].month = 2 /\ data[k].month = 12 /\ data[i].year = data[k].year
    /\ \E j1, j2 \in 1..Len(result.val) :
           /\ j1 # j2
           /\ result.val[j1].season = "Winter" /\ result.val[j2].season = "Winter"
    /\ Len(result.val) >= 5
    /\ SeqSum(PrecipitationColumn(result.val)) = MonthlySum(data, AllRecords(data))
    /\ SeqSum(PrecipitationColumn(result.val)) = Len(data) - 2 + MaxP

====
